---- MODULE Spec2Model ----
(***************************************************************************)
(* The Person CRUD API of core/: the Person table (core/models.py), the    *)
(* dedicated endpoint /person/ (PersonList, core/views.py) and the routed  *)
(* collection /person2/ (AnotherList, a ModelViewSet registered in         *)
(* core/urls.py).                                                          *)
(*                                                                         *)
(* One request is one atomic step (spec section 5: one request per         *)
(* invocation, per-record atomic writes).  The time source is read once    *)
(* per stamped field; successive reads never go back but need not differ   *)
(* (a clock has a resolution).                                             *)
(***************************************************************************)
EXTENDS Integers, Sequences, FiniteSets, TLC

VARIABLES
    persons,     \* the Person table: a set of rows
    nextId,      \* the next value of the table's id sequence
    clock,       \* the last value read from the time source
    resp,        \* the response to the last request
    issued,      \* history: the ids handed out so far
    deleted,     \* history: the ids of the rows deleted so far
    lastList,    \* history: what GET /person/ returned since the last write
    requests     \* the number of requests handled

vars == <<persons, nextId, clock, resp, issued, deleted, lastList, requests>>

\* ---------------------------------------------------------------- bounds
MaxId == 2       \* ids the sequence may hand out in a run
MaxClock == 1    \* largest value the time source returns in a run
MaxRequests == 3 \* requests handled in a run

\* ------------------------------------------------------------- constants
MaxLength == 50             \* models.py: max_length of name and gender
HTTP_200_OK == 200
HTTP_201_CREATED == 201
HTTP_204_NO_CONTENT == 204
HTTP_400_BAD_REQUEST == 400
HTTP_404_NOT_FOUND == 404

\* ---------------------------------------------------------------- values
Rep(c, n) == [i \in 1..n |-> c]

Missing == [tag |-> "missing"]          \* key absent from the request body
Null == [tag |-> "null"]                \* JSON null / SQL NULL
Text(s) == [tag |-> "text", val |-> s]
Integer(n) == [tag |-> "int", val |-> n]

IsText(v) == v.tag = "text"

Bob == Text(<<"b", "o", "b">>)
Female == Text(<<"f">>)

\* request bodies: the ordinary ones (each optional field present or absent),
\* the body of PATCH {age: 42}, the empty body, and the bodies at the edges of
\* validation (explicit nulls, the empty string, lengths MaxLength and
\* MaxLength + 1)
Payloads ==
    [name : {Missing, Bob}, age : {Missing, Integer(42)}, gender : {Female}]
    \cup {[name |-> Missing, age |-> Integer(42), gender |-> Missing],
          [name |-> Missing, age |-> Missing, gender |-> Missing],
          [name |-> Null, age |-> Null, gender |-> Female],
          [name |-> Bob, age |-> Missing, gender |-> Null],
          [name |-> Bob, age |-> Missing, gender |-> Text(<<>>)],
          [name |-> Missing, age |-> Missing, gender |-> Text(Rep("g", MaxLength))],
          [name |-> Bob, age |-> Missing, gender |-> Text(Rep("g", MaxLength + 1))],
          [name |-> Text(Rep("n", MaxLength + 1)), age |-> Missing, gender |-> Female],
          [name |-> Text(Rep("n", MaxLength + 1)), age |-> Integer(42), gender |-> Missing]}

\* primary keys a client may put in the URL
Pks == 1..MaxId

FieldNames == {"name", "age", "gender"}

\* -------------------------------------------------------- Person (models.py)
\* CharField(max_length=50): the length validator of name and of gender
TooLong(v) == IsText(v) /\ Len(v.val) > MaxLength

\* the implicit AutoField primary key: the next value of the table's sequence,
\* which only grows (AUTOINCREMENT)
\* (faulty variant: one more than the largest stored id)
AutoIdReuse ==
    IF persons = {} THEN 1
    ELSE (CHOOSE i \in {r.id : r \in persons} : \A r \in persons : r.id <= i) + 1

AutoId == nextId

\* Model.save(): pre_save of created_at (auto_now_add=True: stamped when the
\* row is added, kept otherwise) and of updated_at (auto_now=True: stamped on
\* every save).  t1 and t2 are the two reads of the time source, in field order.
\* (faulty variants: the two flags swapped; the two reads in the other order;
\* updated_at stamped on insert only)
Person_save_swapped(row, add, t1, t2) ==
    [row EXCEPT !.created_at = t1,
                !.updated_at = IF add THEN t2 ELSE @]

Person_save_reversed(row, add, t1, t2) ==
    [row EXCEPT !.created_at = IF add THEN t2 ELSE @,
                !.updated_at = IF add THEN t1 ELSE t2]

Person_save_keeps_updated(row, add, t1, t2) ==
    [row EXCEPT !.created_at = IF add THEN t1 ELSE @,
                !.updated_at = IF add THEN t2 ELSE @]

Person_save(row, add, t1, t2) ==
    [row EXCEPT !.created_at = IF add THEN t1 ELSE @,
                !.updated_at = t2]

\* the values one read of the time source may return
Now == {t \in clock..(clock + 1) : t <= MaxClock}

\* ------------------------------------------- PersonSerializer (serializer.py)
\* fields whose value fails validation; partial is PATCH's partial=True
Errors(data, partial) ==
    {f \in FieldNames :
        \/ f = "gender" /\ data.gender = Missing /\ ~partial
        \/ f = "gender" /\ data.gender = Null
        \/ f = "gender" /\ IsText(data.gender) /\ Len(data.gender.val) = 0
        \/ f = "gender" /\ TooLong(data.gender)
        \/ f = "name" /\ TooLong(data.name)}

is_valid(data, partial) == Errors(data, partial) = {}

\* the unsaved instance a valid body creates: absent optional fields are NULL
NewRow(id, data) ==
    [id |-> id,
     name |-> IF data.name = Missing THEN Null ELSE data.name,
     age |-> IF data.age = Missing THEN Null ELSE data.age,
     gender |-> data.gender,
     created_at |-> 0,
     updated_at |-> 0]

\* the instance with a valid body's fields set on it: absent fields are kept,
\* id and the two timestamps are read-only
SetFields(row, data) ==
    [row EXCEPT !.name = IF data.name = Missing THEN @ ELSE data.name,
                !.age = IF data.age = Missing THEN @ ELSE data.age,
                !.gender = IF data.gender = Missing THEN @ ELSE data.gender]

\* serializer.data of one instance
to_representation(row) ==
    [id |-> row.id, name |-> row.name, age |-> row.age, gender |-> row.gender,
     created_at |-> row.created_at, updated_at |-> row.updated_at]

\* ---------------------------------------------------------------- responses
\* a response, with the route and the pk of the request it answers (pk is
\* NoPk on the collection routes)
NoPk == [tag |-> "none"]

Response(op, pk, status, data, errors) ==
    [op |-> op, pk |-> pk, status |-> status, data |-> data, errors |-> errors]

\* history: the result of the GET /person/ requests made since the last write
NoList == [valid |-> FALSE, data |-> {}, seen |-> 0]

Listed(data) == [valid |-> TRUE, data |-> data, seen |-> IF lastList.seen = 0 THEN 1 ELSE 2]

\* Person.objects.all()
all == persons

\* get_object(): the rows the pk resolves to
get_object(pk) == {r \in persons : r.id = pk}

Init ==
    /\ persons = {}
    /\ nextId = 1
    /\ clock = 0
    /\ resp = Response("none", NoPk, 0, {}, {})
    /\ issued = {}
    /\ deleted = {}
    /\ lastList = NoList
    /\ requests = 0

\* serializer.save() of a new instance: INSERT with the sequence's next id
Insert(data, t1, t2) ==
    /\ persons' = persons \cup {Person_save(NewRow(AutoId, data), TRUE, t1, t2)}
    /\ nextId' = AutoId + 1
    /\ issued' = issued \cup {AutoId}
    /\ clock' = t2
    /\ lastList' = NoList
    /\ UNCHANGED deleted

\* the store and its history are left alone
Untouched == UNCHANGED <<persons, nextId, clock, issued, deleted>>

\* --------------------------------------------------- PersonList (views.py)
\* (faulty variants of get: one that saves the rows it reads, one that filters)
PersonList_get_touch ==
    /\ resp' = Response("GET /person/", NoPk, HTTP_200_OK, {to_representation(r) : r \in all}, {})
    /\ \E t \in Now :
        /\ persons' = {Person_save(r, FALSE, t, t) : r \in persons}
        /\ clock' = t
    /\ lastList' = Listed({to_representation(r) : r \in all})
    /\ UNCHANGED <<nextId, issued, deleted>>

PersonList_get_filtered ==
    /\ resp' = Response("GET /person/", NoPk, HTTP_200_OK,
                        {to_representation(r) : r \in {x \in all : x.name # Null}}, {})
    /\ lastList' = Listed({to_representation(r) : r \in {x \in all : x.name # Null}})
    /\ Untouched

PersonList_get ==
    /\ resp' = Response("GET /person/", NoPk, HTTP_200_OK, {to_representation(r) : r \in all}, {})
    /\ lastList' = Listed({to_representation(r) : r \in all})
    /\ Untouched

\* (faulty variants of post: the default status, and save() without is_valid())
PersonList_post_status_200(data) ==
    IF is_valid(data, FALSE)
    THEN /\ AutoId <= MaxId
         /\ \E t1 \in Now : \E t2 \in {t \in t1..(t1 + 1) : t <= MaxClock} :
             /\ Insert(data, t1, t2)
             /\ resp' = Response("POST /person/", NoPk, HTTP_200_OK,
                                 {to_representation(Person_save(NewRow(AutoId, data), TRUE, t1, t2))}, {})
    ELSE /\ resp' = Response("POST /person/", NoPk, HTTP_400_BAD_REQUEST, {}, Errors(data, FALSE))
         /\ UNCHANGED lastList
         /\ Untouched

PersonList_post_unchecked(data) ==
    /\ AutoId <= MaxId
    /\ \E t1 \in Now : \E t2 \in {t \in t1..(t1 + 1) : t <= MaxClock} :
        /\ Insert(data, t1, t2)
        /\ resp' = Response("POST /person/", NoPk, HTTP_201_CREATED,
                            {to_representation(Person_save(NewRow(AutoId, data), TRUE, t1, t2))}, {})

PersonList_post(data) ==
    IF is_valid(data, FALSE)
    THEN /\ AutoId <= MaxId
         /\ \E t1 \in Now : \E t2 \in {t \in t1..(t1 + 1) : t <= MaxClock} :
             /\ Insert(data, t1, t2)
             /\ resp' = Response("POST /person/", NoPk, HTTP_201_CREATED,
                                 {to_representation(Person_save(NewRow(AutoId, data), TRUE, t1, t2))}, {})
    ELSE /\ resp' = Response("POST /person/", NoPk, HTTP_400_BAD_REQUEST, {}, Errors(data, FALSE))
         /\ UNCHANGED lastList
         /\ Untouched

\* ------------------------------------- AnotherList (views.py, ModelViewSet)
\* the new state of the table when the row obj is saved as row
Saved(obj, row) == (persons \ {obj}) \cup {row}

AnotherList_list ==
    /\ resp' = Response("GET /person2/", NoPk, HTTP_200_OK, {to_representation(r) : r \in all}, {})
    /\ UNCHANGED lastList
    /\ Untouched

AnotherList_create(data) ==
    IF is_valid(data, FALSE)
    THEN /\ AutoId <= MaxId
         /\ \E t1 \in Now : \E t2 \in {t \in t1..(t1 + 1) : t <= MaxClock} :
             /\ Insert(data, t1, t2)
             /\ resp' = Response("POST /person2/", NoPk, HTTP_201_CREATED,
                                 {to_representation(Person_save(NewRow(AutoId, data), TRUE, t1, t2))}, {})
    ELSE /\ resp' = Response("POST /person2/", NoPk, HTTP_400_BAD_REQUEST, {}, Errors(data, FALSE))
         /\ UNCHANGED lastList
         /\ Untouched

AnotherList_retrieve(pk) ==
    /\ resp' = IF get_object(pk) = {}
               THEN Response("GET /person2/{id}/", pk, HTTP_404_NOT_FOUND, {}, {})
               ELSE Response("GET /person2/{id}/", pk, HTTP_200_OK,
                             {to_representation(r) : r \in get_object(pk)}, {})
    /\ UNCHANGED lastList
    /\ Untouched

\* UpdateModelMixin.update: PUT (partial = FALSE) and PATCH (partial = TRUE)
UpdateModel(op, pk, data, partial) ==
    IF get_object(pk) = {}
    THEN /\ resp' = Response(op, pk, HTTP_404_NOT_FOUND, {}, {})
         /\ UNCHANGED lastList
         /\ Untouched
    ELSE IF ~is_valid(data, partial)
    THEN /\ resp' = Response(op, pk, HTTP_400_BAD_REQUEST, {}, Errors(data, partial))
         /\ UNCHANGED lastList
         /\ Untouched
    ELSE \E obj \in get_object(pk) : \E t \in Now :
         /\ persons' = Saved(obj, Person_save(SetFields(obj, data), FALSE, t, t))
         /\ clock' = t
         /\ resp' = Response(op, pk, HTTP_200_OK,
                             {to_representation(Person_save(SetFields(obj, data), FALSE, t, t))}, {})
         /\ lastList' = NoList
         /\ UNCHANGED <<nextId, issued, deleted>>

\* (faulty variant: PUT on an unknown pk creates the row)
AnotherList_update_upsert(pk, data) ==
    IF get_object(pk) = {} /\ is_valid(data, FALSE)
    THEN \E t \in Now :
         /\ persons' = persons \cup {Person_save(NewRow(pk, data), TRUE, t, t)}
         /\ clock' = t
         /\ resp' = Response("PUT /person2/{id}/", pk, HTTP_201_CREATED,
                             {to_representation(Person_save(NewRow(pk, data), TRUE, t, t))}, {})
         /\ lastList' = NoList
         /\ UNCHANGED <<nextId, issued, deleted>>
    ELSE UpdateModel("PUT /person2/{id}/", pk, data, FALSE)

AnotherList_update(pk, data) == UpdateModel("PUT /person2/{id}/", pk, data, FALSE)

AnotherList_partial_update(pk, data) == UpdateModel("PATCH /person2/{id}/", pk, data, TRUE)

\* (faulty variant: 204 without removing the row)
AnotherList_destroy_keeps(pk) ==
    IF get_object(pk) = {}
    THEN /\ resp' = Response("DELETE /person2/{id}/", pk, HTTP_404_NOT_FOUND, {}, {})
         /\ UNCHANGED lastList
         /\ Untouched
    ELSE /\ deleted' = deleted \cup {pk}
         /\ resp' = Response("DELETE /person2/{id}/", pk, HTTP_204_NO_CONTENT, {}, {})
         /\ lastList' = NoList
         /\ UNCHANGED <<persons, nextId, clock, issued>>

AnotherList_destroy(pk) ==
    IF get_object(pk) = {}
    THEN /\ resp' = Response("DELETE /person2/{id}/", pk, HTTP_404_NOT_FOUND, {}, {})
         /\ UNCHANGED lastList
         /\ Untouched
    ELSE /\ persons' = persons \ get_object(pk)
         /\ deleted' = deleted \cup {pk}
         /\ resp' = Response("DELETE /person2/{id}/", pk, HTTP_204_NO_CONTENT, {}, {})
         /\ lastList' = NoList
         /\ UNCHANGED <<nextId, clock, issued>>

\* one more request is handled
Counted == requests < MaxRequests /\ requests' = requests + 1

Next ==
    \/ Counted /\ PersonList_get
    \/ Counted /\ \E data \in Payloads : PersonList_post(data)
    \/ Counted /\ AnotherList_list
    \/ Counted /\ \E data \in Payloads : AnotherList_create(data)
    \/ Counted /\ \E pk \in Pks : AnotherList_retrieve(pk)
    \/ Counted /\ \E pk \in Pks, data \in Payloads : AnotherList_update(pk, data)
    \/ Counted /\ \E pk \in Pks, data \in Payloads : AnotherList_partial_update(pk, data)
    \/ Counted /\ \E pk \in Pks : AnotherList_destroy(pk)

Spec == Init /\ [][Next]_vars

\* ------------------------------------------------------------------ claims
Ids(S) == {r.id : r \in S}

\* the request the step handled, as the response names it
Handled(ops) == resp'.op \in ops

CreateOps == {"POST /person/", "POST /person2/"}
UpdateOps == {"PUT /person2/{id}/", "PATCH /person2/{id}/"}
DetailOps == UpdateOps \cup {"GET /person2/{id}/", "DELETE /person2/{id}/"}
ListOps == {"GET /person/", "GET /person2/"}

\* the body's text fields are within MaxLength and gender is a non-empty text
C1_Valid(data) ==
    /\ IsText(data.gender)
    /\ Len(data.gender.val) > 0
    /\ Len(data.gender.val) <= MaxLength
    /\ IsText(data.name) => Len(data.name.val) <= MaxLength

C2_PostMissingGender ==
    [][Handled({"POST /person/"}) => \A data \in Payloads :
        (PersonList_post(data) /\ data.gender = Missing) =>
            /\ resp'.status = HTTP_400_BAD_REQUEST
            /\ "gender" \in resp'.errors
            /\ persons' = persons]_vars

C2_Witness ==
    /\ resp.op = "POST /person/"
    /\ resp.status = HTTP_400_BAD_REQUEST
    /\ resp.errors = {"gender", "name"}
    /\ persons # {}

\* C3: every stored record has created_at <= updated_at.
C3_CreatedBeforeUpdated == \A r \in persons : r.created_at <= r.updated_at

C3_Witness ==
    /\ resp.op = "PUT /person2/{id}/"
    /\ resp.status = HTTP_200_OK
    /\ \E rec \in resp.data : rec.created_at < rec.updated_at
    /\ Cardinality(persons) = 2

C4_Unique == \A r1, r2 \in persons : r1.id = r2.id => r1 = r2

C4_Step ==
    /\ Handled(UpdateOps) =>
            /\ Ids(persons') = Ids(persons)
            /\ Cardinality(persons') = Cardinality(persons)
            /\ \A rec \in resp'.data : rec.id = resp'.pk
    /\ Handled(CreateOps) =>
            \A row \in persons' \ persons : row.id \notin issued /\ row.id \in issued'

\* C4: no two stored records share an id, PUT and PATCH leave every id as it
\* is, and a create never hands out an id that was handed out before, deleted
\* records' ids included.
C4_IdUniqueImmutableNeverReused == [](C4_Unique) /\ [][C4_Step]_vars

C4_Witness ==
    /\ resp.op = "POST /person2/"
    /\ resp.status = HTTP_201_CREATED
    /\ deleted # {}
    /\ \E rec \in resp.data : rec.id \notin deleted /\ rec.id \in Ids(persons)

AgeOnly == [name |-> Missing, age |-> Integer(42), gender |-> Missing]

\* what PATCH {age: 42} on the stored row obj does besides stamping updated_at
C5_Frame(obj) ==
    /\ resp'.status = HTTP_200_OK
    /\ \E row \in persons' :
        /\ persons' = (persons \ {obj}) \cup {row}
        /\ resp'.data = {to_representation(row)}
        /\ row.age = Integer(42)
        /\ row.name = obj.name
        /\ row.gender = obj.gender
        /\ row.id = obj.id
        /\ row.created_at = obj.created_at

\* C5 as stated: PATCH {age: 42} on an existing record returns 200, sets age
\* to 42, keeps name, gender, id and created_at, changes no other record and
\* makes updated_at later than it was.
C5_PatchAdvancesUpdatedAt ==
    [][Handled({"PATCH /person2/{id}/"}) => \A obj \in persons :
        AnotherList_partial_update(obj.id, AgeOnly) =>
            /\ C5_Frame(obj)
            /\ \A row \in persons' : row.id = obj.id => row.updated_at > obj.updated_at]_vars

\* C5 (amended): PATCH {age: 42} on an existing record returns 200, sets age
\* to 42, keeps name, gender, id and created_at, changes no other record and
\* sets updated_at to the time read during the request, which is not earlier
\* than the previous updated_at.
C5_PatchStampsUpdatedAt ==
    [][Handled({"PATCH /person2/{id}/"}) => \A obj \in persons :
        AnotherList_partial_update(obj.id, AgeOnly) =>
            /\ C5_Frame(obj)
            /\ \A row \in persons' : row.id = obj.id =>
                /\ row.updated_at = clock'
                /\ row.updated_at >= obj.updated_at
                /\ row.updated_at >= clock]_vars

C5_Witness ==
    /\ resp.op = "PATCH /person2/{id}/"
    /\ resp.status = HTTP_200_OK
    /\ Cardinality(persons) = 2
    /\ \E rec \in resp.data :
        /\ rec.age = Integer(42)
        /\ rec.name = Bob
        /\ rec.created_at < rec.updated_at

\* C6: DELETE on a stored record's id returns 204 and removes it; from then
\* on the id resolves to no record, and GET /person2/{id}/ on it returns 404.
C6_DeletedStaysGone ==
    /\ [](\A pk \in deleted : get_object(pk) = {})
    /\ [][/\ Handled({"DELETE /person2/{id}/"}) => \A pk \in Pks :
              (AnotherList_destroy(pk) /\ get_object(pk) # {}) =>
                  /\ resp'.status = HTTP_204_NO_CONTENT
                  /\ pk \notin Ids(persons')
                  /\ pk \in deleted'
          /\ Handled({"GET /person2/{id}/"}) => \A pk \in deleted :
              AnotherList_retrieve(pk) => resp'.status = HTTP_404_NOT_FOUND]_vars

C6_Witness ==
    /\ resp.op = "GET /person2/{id}/"
    /\ resp.status = HTTP_404_NOT_FOUND
    /\ resp.pk \in deleted

\* C7: a record created with 201 is stored as returned, and until it is
\* deleted GET /person/ and GET /person2/ return 200 with a record of its id.
C7_CreatedIsListed ==
    [][/\ (Handled(CreateOps) /\ resp'.status = HTTP_201_CREATED) =>
                 /\ resp'.data # {}
                 /\ resp'.data \subseteq {to_representation(r) : r \in persons'}
       /\ (Handled(ListOps) /\ (PersonList_get \/ AnotherList_list)) =>
             /\ resp'.status = HTTP_200_OK
             /\ \A i \in issued \ deleted : \E rec \in resp'.data : rec.id = i
             /\ \A rec \in resp'.data : \E r \in persons : to_representation(r) = rec]_vars

C7_Witness ==
    /\ resp.op = "GET /person/"
    /\ resp.status = HTTP_200_OK
    /\ Cardinality(resp.data) = 2
    /\ \E rec \in resp.data : rec.created_at < rec.updated_at

\* C8 as stated: the record a create returns has created_at = updated_at.
C8_CreatedEqualsUpdated ==
    resp.status = HTTP_201_CREATED =>
        \A rec \in resp.data : rec.created_at = rec.updated_at

\* C8 (amended): the record a create returns has created_at <= updated_at,
\* both read from the time source during the request: created_at is not
\* earlier than the last time read before it and updated_at is the last time
\* read.
C8_CreatedStampedInOrder ==
    [][(Handled(CreateOps) /\ resp'.status = HTTP_201_CREATED) =>
            \A rec \in resp'.data :
                /\ clock <= rec.created_at
                /\ rec.created_at <= rec.updated_at
                /\ rec.updated_at = clock']_vars

C8_Witness ==
    /\ resp.op = "POST /person/"
    /\ resp.status = HTTP_201_CREATED
    /\ \E rec \in resp.data : rec.created_at < rec.updated_at

\* C9: GET, PUT, PATCH and DELETE on /person2/{id}/ with an id that resolves
\* to no stored record return 404 and leave the table as it was.
C9_UnknownIdIs404 ==
    [][Handled(DetailOps) => \A pk \in Pks :
        (/\ get_object(pk) = {}
         /\ \/ AnotherList_retrieve(pk)
            \/ AnotherList_destroy(pk)
            \/ \E data \in Payloads : AnotherList_update(pk, data)
            \/ \E data \in Payloads : AnotherList_partial_update(pk, data)) =>
            /\ resp'.status = HTTP_404_NOT_FOUND
            /\ persons' = persons]_vars

C9_Witness ==
    /\ resp.op = "PUT /person2/{id}/"
    /\ resp.status = HTTP_404_NOT_FOUND
    /\ resp.pk \notin issued
    /\ persons # {}

\* C10: GET /person/ leaves the table as it was, and returns what the
\* previous GET /person/ returned when no write came between them.
C10_GetReadOnlyIdempotent ==
    [][(Handled({"GET /person/"}) /\ PersonList_get) =>
        /\ persons' = persons
        /\ resp'.data = {to_representation(r) : r \in persons}
        /\ lastList.valid => resp'.data = lastList.data]_vars

C10_Witness ==
    /\ resp.op = "GET /person/"
    /\ lastList.seen = 2
    /\ resp.data # {}
====
